---------------------------- MODULE Spec2Model ----------------------------
(***************************************************************************)
(* Model of src/claims.rs: the JWT claims payload.                          *)
(*                                                                         *)
(*   Claims            { registered: RegisteredClaims (flattened),          *)
(*                       private: BTreeMap<String, serde_json::Value>       *)
(*                       (flattened) }                                      *)
(*   RegisteredClaims  seven Option fields; `aud` is read by parse_audience *)
(*                                                                         *)
(* Three layers of data are kept apart:                                     *)
(*   - the wire: a JSON text, as the tree of tokens the JSON reader         *)
(*     reports.  A string token written without escape sequences is handed  *)
(*     over borrowed ("str"); one written with escape sequences has to be   *)
(*     unescaped into a scratch buffer and is handed over owned ("estr").   *)
(*     An object is the SEQUENCE of its members, in text order: a text may  *)
(*     repeat a key.                                                        *)
(*   - serde_json::Value, the opaque JSON value of a private claim.         *)
(*   - the Claims value in memory.                                          *)
(***************************************************************************)
EXTENDS Integers, Sequences, FiniteSets, TLC

VARIABLES
    claims,   \* the Claims value the caller holds
    built,    \* "constructed": by default/new/field assignment; "decoded": a decode's output, unmodified
    input,    \* the received payload `claims` was first decoded from (NoWire if none)
    wire,     \* the JSON payload in hand (NoWire if none)
    origin,   \* "none" | "encoded" (wire is the encoding of `claims`) | "received"
    result    \* outcome of the last decode of `wire` (NoResult if none)

vars == <<claims, built, input, wire, origin, result>>

----------------------------------------------------------------------------
(* Bounds of the model *)

\* most registered fields a caller asserts by assignment
MaxAsserted == 2
\* most entries a caller inserts into the private mapping
MaxPrivate == 1
\* most members of a received JSON object
MaxWireLen == 2

----------------------------------------------------------------------------
(* Tagged values.  An Option, a Result, a JSON token and a JSON value are    *)
(* each a pair <<tag, payload>>: x[1] is the tag, x[2] the payload.        *)

(* Option<T> and Result<T, E> *)

None == <<"None", 0>>
Some(x) == <<"Some", x>>

Ok(x) == <<"Ok", x>>
Err(e) == <<"Err", e>>
IsOk(r) == r[1] = "Ok"
\* the value of an Ok
Unwrap(r) == r[2]

NoResult == <<"NoResult", 0>>
NoWire == <<"nowire", 0>>

----------------------------------------------------------------------------
(* Strings.  PlainStrings hold no character JSON has to escape;            *)
(* QuotedStrings hold a double quote, which JSON text can only carry as    *)
(* the escape sequence \".                                                 *)

PlainStrings == {"audience"}
QuotedStrings == {"q\"t"}
Strings == PlainStrings \cup QuotedStrings

\* serde_json's writer escapes '"', '\' and control characters, nothing else
NeedsEscape(s) == s \in QuotedStrings

----------------------------------------------------------------------------
(* The wire: JSON tokens *)

WNull == <<"null", 0>>
WBool(b) == <<"bool", b>>
\* a non-negative integer literal (within u64)
WUInt(n) == <<"uint", n>>
\* a negative integer literal
WNegInt(n) == <<"nint", n>>
\* a literal with a fraction or exponent; v stands for the float v + 0.5
WFloat(n) == <<"float", n>>
\* a string written without escape sequences
WStr(s) == <<"str", s>>
\* a string written with at least one escape sequence
WEStr(s) == <<"estr", s>>
WArr(a) == <<"arr", a>>
\* members in text order, each <<key, token>>
WObj(m) == <<"obj", m>>

\* the members of an object token
Members(t) == t[2]

IsStringToken(t) == t[1] \in {"str", "estr"}

\* the keys of an object's members, and the members under one key
KeysOf(members) == {members[i][1] : i \in DOMAIN members}
IndicesOf(members, key) == {i \in DOMAIN members : members[i][1] = key}
HasDuplicateKey(members) ==
    \E i, j \in DOMAIN members : i # j /\ members[i][1] = members[j][1]

\* the last member under `key` (a map insert overwrites)
LastOf(members, key) ==
    members[CHOOSE i \in IndicesOf(members, key) :
                \A j \in IndicesOf(members, key) : j <= i][2]

----------------------------------------------------------------------------
(* serde_json::Value *)

VNull == <<"Null", 0>>
VBool(b) == <<"Bool", b>>
VPosInt(n) == <<"PosInt", n>>
VNegInt(n) == <<"NegInt", n>>
VFloat(n) == <<"Float", n>>
VString(s) == <<"String", s>>
VArray(a) == <<"Array", a>>
\* a BTreeMap: a function from its keys
VObject(m) == <<"Object", m>>

EmptyMap == <<>>

\* every key the model uses, in the order BTreeMap<String, _> iterates
\* (byte-wise: ' ' < upper case < lower case)
KeyOrder == <<" exp", "ISS", "aud", "custom_claim", "exp", "iat", "iss",
              "jti", "k", "nbf", "sub">>

\* the keys of map m in BTreeMap order
SortedKeys(m) == SelectSeq(KeyOrder, LAMBDA key : key \in DOMAIN m)

\* Value's Deserialize (ValueVisitor), from a buffered token
RECURSIVE ToValue(_)
ToValue(t) ==
    CASE t[1] = "null" -> VNull
      [] t[1] = "bool" -> VBool(t[2])
      [] t[1] = "uint" -> VPosInt(t[2])
      [] t[1] = "nint" -> VNegInt(t[2])
      [] t[1] = "float" -> VFloat(t[2])
      [] t[1] \in {"str", "estr"} -> VString(t[2])
      [] t[1] = "arr" -> VArray([i \in DOMAIN t[2] |-> ToValue(t[2][i])])
      [] t[1] = "obj" ->
            VObject([key \in KeysOf(t[2]) |-> ToValue(LastOf(t[2], key))])

\* how serde_json writes a string
WriteString(s) == IF NeedsEscape(s) THEN WEStr(s) ELSE WStr(s)

\* Value's Serialize, to JSON text
RECURSIVE FromValue(_)
FromValue(x) ==
    CASE x[1] = "Null" -> WNull
      [] x[1] = "Bool" -> WBool(x[2])
      [] x[1] = "PosInt" -> WUInt(x[2])
      [] x[1] = "NegInt" -> WNegInt(x[2])
      [] x[1] = "Float" -> WFloat(x[2])
      [] x[1] = "String" -> WriteString(x[2])
      [] x[1] = "Array" -> WArr([i \in DOMAIN x[2] |-> FromValue(x[2][i])])
      [] x[1] = "Object" ->
            WObj([i \in DOMAIN SortedKeys(x[2]) |->
                    <<SortedKeys(x[2])[i], FromValue(x[2][SortedKeys(x[2])[i]])>>])

----------------------------------------------------------------------------
(* RegisteredClaims and Claims *)

\* the wire names of RegisteredClaims, in declaration order (serde rename)
FIELDS == <<"iss", "sub", "aud", "exp", "nbf", "iat", "jti">>
RegisteredNames == {FIELDS[i] : i \in DOMAIN FIELDS}

StringFields == {"issuer", "subject", "json_web_token_id"}
NumberFields == {"expiration", "not_before", "issued_at"}
FieldNames == StringFields \cup NumberFields \cup {"audience"}

\* the struct field a wire name is renamed from
FieldOf(name) ==
    CASE name = "iss" -> "issuer"
      [] name = "sub" -> "subject"
      [] name = "aud" -> "audience"
      [] name = "exp" -> "expiration"
      [] name = "nbf" -> "not_before"
      [] name = "iat" -> "issued_at"
      [] name = "jti" -> "json_web_token_id"

\* #[derive(Default)]: every field None
RegisteredDefault == [f \in FieldNames |-> None]

\* #[derive(Default)]
ClaimsDefault == [registered |-> RegisteredDefault, private |-> EmptyMap]

\* Claims::new
Claims_new(registered) == [registered |-> registered, private |-> EmptyMap]

----------------------------------------------------------------------------
(* Deserialize *)

\* Option<String>: a null is visit_unit, which Option reads as None
DeserializeOptionString(t) ==
    CASE t[1] = "null" -> Ok(None)
      [] t[1] \in {"str", "estr"} -> Ok(Some(t[2]))
      [] OTHER -> Err("invalid type")

\* faulty variant: a value of the wrong type is dropped to None
DeserializeOptionU64_lenient(t) ==
    IF t[1] = "uint" THEN Ok(Some(t[2])) ELSE Ok(None)

\* Option<SecondsSinceEpoch>, SecondsSinceEpoch = u64
DeserializeOptionU64(t) ==
    CASE t[1] = "null" -> Ok(None)
      [] t[1] = "uint" -> Ok(Some(t[2]))
      [] t[1] = "nint" -> Err("invalid value")
      [] OTHER -> Err("invalid type")

\* Vec<String>: a sequence whose elements are all strings (owned or borrowed)
DeserializeVecString(t) ==
    IF t[1] = "arr" /\ \A i \in DOMAIN t[2] : IsStringToken(t[2][i])
    THEN Ok([i \in DOMAIN t[2] |-> t[2][i][2]])
    ELSE Err("invalid type")

\* &'a str: only a string the input can lend, i.e. one read without unescaping
DeserializeStrRef(t) ==
    IF t[1] = "str" THEN Ok(t[2]) ELSE Err("invalid type")

\* faulty variant: the enum without its unit variant, so a null matches
\* nothing
Audience_deserialize_no_unit(t) ==
    IF IsOk(DeserializeStrRef(t))
    THEN Ok(<<"Str", DeserializeStrRef(t)[2]>>)
    ELSE IF IsOk(DeserializeVecString(t))
    THEN Ok(<<"Vec", DeserializeVecString(t)[2]>>)
    ELSE Err("data did not match any variant of untagged enum Audience")

\* the untagged enum Audience: the variants are tried in declaration order;
\* the unit variant None matches a null
Audience_deserialize(t) ==
    IF IsOk(DeserializeStrRef(t))
    THEN Ok(<<"Str", DeserializeStrRef(t)[2]>>)
    ELSE IF IsOk(DeserializeVecString(t))
    THEN Ok(<<"Vec", DeserializeVecString(t)[2]>>)
    ELSE IF t[1] = "null"
    THEN Ok(<<"None", 0>>)
    ELSE Err("data did not match any variant of untagged enum Audience")

\* faulty variant: an empty array is taken for an absent audience
parse_audience_empty_as_none(t) ==
    LET a == Audience_deserialize(t)
    IN  IF ~IsOk(a) THEN a
        ELSE CASE a[2][1] = "Str" -> Ok(Some(<<a[2][2]>>))
               [] a[2][1] = "Vec" ->
                    IF a[2][2] = <<>> THEN Ok(None) ELSE Ok(Some(a[2][2]))
               [] a[2][1] = "None" -> Ok(None)

parse_audience(t) ==
    LET a == Audience_deserialize(t)
    IN  IF ~IsOk(a) THEN a
        ELSE CASE a[2][1] = "Str" -> Ok(Some(<<a[2][2]>>))
               [] a[2][1] = "Vec" -> Ok(Some(a[2][2]))
               [] a[2][1] = "None" -> Ok(None)

\* one field of RegisteredClaims from the token under its wire name
DeserializeField(name, t) ==
    CASE FieldOf(name) \in StringFields -> DeserializeOptionString(t)
      [] FieldOf(name) \in NumberFields -> DeserializeOptionU64(t)
      [] OTHER -> parse_audience(t)

\* RegisteredClaims' derived visit_map over the flattened members: a member
\* whose key is one of FIELDS is taken; a field met twice is an error; the
\* first error ends the visit.  A field never met is None (Option's missing
\* field; `default` for aud).
RECURSIVE VisitRegistered(_, _, _, _)
VisitRegistered(members, i, seen, reg) ==
    IF i > Len(members) THEN Ok(reg)
    ELSE LET name == members[i][1]
             r == DeserializeField(name, members[i][2])
         IN  IF name \notin RegisteredNames
             THEN VisitRegistered(members, i + 1, seen, reg)
             ELSE IF name \in seen THEN Err("duplicate field")
             ELSE IF ~IsOk(r) THEN r
             ELSE VisitRegistered(members, i + 1, seen \cup {name},
                                  [reg EXCEPT ![FieldOf(name)] = r[2]])

RegisteredClaims_deserialize(members) ==
    VisitRegistered(members, 1, {}, RegisteredDefault)

\* faulty variant: the struct's members are not taken, so the map after it
\* sees them all
Remaining_not_taken(members) == members

\* what the flattened struct leaves for the next flattened field: the
\* members it took (those keyed by one of FIELDS) are gone
Remaining(members) ==
    SelectSeq(members, LAMBDA e : e[1] \notin RegisteredNames)

\* BTreeMap<String, Value> from the members left: inserted in order, so the
\* last of a repeated key stays
DeserializePrivate(members) ==
    [key \in KeysOf(members) |-> ToValue(LastOf(members, key))]

\* Claims' derived Deserialize: the top-level value must be a map; its
\* members are buffered, then handed to registered, then to private
Claims_deserialize(t) ==
    IF t[1] # "obj" THEN Err("invalid type")
    ELSE LET r == RegisteredClaims_deserialize(t[2])
         IN  IF ~IsOk(r) THEN r
             ELSE Ok([registered |-> r[2],
                      private |-> DeserializePrivate(Remaining(t[2]))])

----------------------------------------------------------------------------
(* Serialize *)

\* Vec<String>
SerializeVecString(a) == WArr([i \in DOMAIN a |-> WriteString(a[i])])

\* u64
SerializeU64(n) == WUInt(n)

\* the value of one field, by the field's type
SerializeValue(field, x) ==
    CASE field \in StringFields -> WriteString(x)
      [] field \in NumberFields -> SerializeU64(x)
      [] OTHER -> SerializeVecString(x)

\* one field under its wire name; skip_serializing_if = "Option::is_none"
SerializeField(name, field, r) ==
    IF r[field][1] = "None" THEN <<>>
    ELSE << <<name, SerializeValue(field, r[field][2])>> >>

\* faulty variant: json_web_token_id written without its rename
RegisteredClaims_serialize_unrenamed(r) ==
    SerializeField("iss", "issuer", r)
    \o SerializeField("sub", "subject", r)
    \o SerializeField("aud", "audience", r)
    \o SerializeField("exp", "expiration", r)
    \o SerializeField("nbf", "not_before", r)
    \o SerializeField("iat", "issued_at", r)
    \o SerializeField("json_web_token_id", "json_web_token_id", r)

\* RegisteredClaims' derived Serialize: the fields in declaration order
RegisteredClaims_serialize(r) ==
    SerializeField("iss", "issuer", r)
    \o SerializeField("sub", "subject", r)
    \o SerializeField("aud", "audience", r)
    \o SerializeField("exp", "expiration", r)
    \o SerializeField("nbf", "not_before", r)
    \o SerializeField("iat", "issued_at", r)
    \o SerializeField("jti", "json_web_token_id", r)

\* the private map's entries, in key order
SerializePrivate(m) ==
    [i \in DOMAIN SortedKeys(m) |->
        <<SortedKeys(m)[i], FromValue(m[SortedKeys(m)[i]])>>]

\* Claims' derived Serialize: both flattened fields write their entries into
\* one map, registered first
Claims_serialize(c) ==
    WObj(RegisteredClaims_serialize(c.registered) \o SerializePrivate(c.private))

----------------------------------------------------------------------------
(* Inputs *)

\* values a caller assigns to a registered field
AudienceInputs ==
    {<<>>, <<"audience">>, <<"q\"t">>, <<"audience", "q\"t">>}

FieldInputs(f) ==
    CASE f \in StringFields -> {Some(s) : s \in Strings}
      [] f \in NumberFields -> {Some(1)}
      [] OTHER -> {Some(a) : a \in AudienceInputs}

\* RegisteredClaims values handed to Claims::new
RegisteredInputs ==
    {RegisteredDefault,
     [RegisteredDefault EXCEPT !.issuer = Some("audience"),
                               !.expiration = Some(1)]}

\* entries a caller inserts into `private`, a public field: any key
PrivateKeyInputs == {"custom_claim", "iss", "aud"}
ValueInputs ==
    {VNull, VBool(TRUE), VPosInt(1), VString("audience"),
     VArray(<<VString("q\"t"), VNull>>), VObject("k" :> VNegInt(-1))}

\* members of received JSON objects
StringFieldTokens == {WNull, WUInt(1), WStr("audience"), WEStr("q\"t")}
NumberFieldTokens == {WNull, WUInt(1), WNegInt(-1), WFloat(1), WStr("audience")}
AudienceTokens ==
    {WNull, WUInt(1), WBool(TRUE), WStr("audience"), WEStr("q\"t"),
     WArr(<<>>), WArr(<<WStr("audience"), WEStr("q\"t")>>),
     WArr(<<WStr("audience"), WUInt(1)>>), WObj(<< <<"k", WUInt(1)>> >>)}
PrivateTokens ==
    {WNull, WBool(TRUE), WNegInt(-1), WEStr("audience"),
     WArr(<<WStr("audience"), WNull>>),
     WObj(<< <<"k", WUInt(1)>>, <<"k", WStr("audience")>> >>)}

MemberInputs ==
    ({"iss"} \X StringFieldTokens)
    \cup ({"sub", "jti"} \X {WNull, WUInt(1), WStr("audience")})
    \cup ({"exp"} \X NumberFieldTokens)
    \cup ({"nbf", "iat"} \X {WNull, WUInt(1), WStr("audience")})
    \cup ({"aud"} \X AudienceTokens)
    \cup ({"custom_claim"} \X PrivateTokens)
    \cup ({"ISS"} \X {WStr("audience")})
    \cup ({" exp"} \X {WUInt(1)})

\* received payloads: objects of up to MaxWireLen members, and two texts
\* that are not objects
WireInputs ==
    {WObj(m) : m \in UNION {[1..n -> MemberInputs] : n \in 0..MaxWireLen}}
    \cup {WNull, WArr(<<>>)}

----------------------------------------------------------------------------
(* The caller's operations *)

Asserted(c) == {f \in FieldNames : c.registered[f][1] = "Some"}

\* the caller builds before it encodes: with a payload in hand it first
\* gets on with that payload (the state after building does not depend on
\* the payload, so no reachable state is lost)
Building == wire = NoWire

\* a value the caller has just built or changed
Hold(c) ==
    /\ claims' = c
    /\ built' = "constructed"
    /\ input' = NoWire
    /\ wire' = NoWire
    /\ origin' = "none"
    /\ result' = NoResult

Init ==
    /\ claims = ClaimsDefault
    /\ built = "constructed"
    /\ input = NoWire
    /\ wire = NoWire
    /\ origin = "none"
    /\ result = NoResult

\* Default::default()
Default ==
    /\ Building
    /\ Hold(ClaimsDefault)

\* Claims::new(registered)
New ==
    /\ Building
    /\ \E r \in RegisteredInputs : Hold(Claims_new(r))

\* claims.registered.<field> = Some(..) / None
AssignRegistered ==
    /\ Building
    /\ \E f \in FieldNames : \E x \in FieldInputs(f) \cup {None} :
        LET c == [claims EXCEPT !.registered[f] = x]
        IN  /\ Cardinality(Asserted(c)) <= MaxAsserted
            /\ Hold(c)

\* claims.private.insert(key, value)
InsertPrivate ==
    /\ Building
    /\ \E key \in PrivateKeyInputs : \E x \in ValueInputs :
        LET m == [k2 \in DOMAIN claims.private \cup {key} |->
                    IF k2 = key THEN x ELSE claims.private[k2]]
        IN  /\ Cardinality(DOMAIN m) <= MaxPrivate
            /\ Hold([claims EXCEPT !.private = m])

\* claims.to_base64(): the payload of the value in hand
ToBase64 ==
    /\ wire' = Claims_serialize(claims)
    /\ origin' = "encoded"
    /\ result' = NoResult
    /\ UNCHANGED <<claims, built, input>>

\* a payload arrives from outside, at a caller that holds nothing yet (the
\* state after Receive does not depend on the state before it, so no
\* reachable state is lost by starting from the default)
Receive ==
    /\ claims = ClaimsDefault
    /\ built = "constructed"
    /\ wire = NoWire
    /\ \E j \in WireInputs :
        /\ wire' = j
        /\ origin' = "received"
        /\ result' = NoResult
        /\ claims' = ClaimsDefault
        /\ built' = "constructed"
        /\ input' = NoWire

\* Claims::from_base64(payload)
FromBase64 ==
    /\ wire # NoWire
    /\ result = NoResult
    /\ result' = Claims_deserialize(wire)
    /\ UNCHANGED <<claims, built, input, wire, origin>>

\* the caller keeps the decoded value and drops the payload
Adopt ==
    /\ IsOk(result)
    /\ claims' = Unwrap(result)
    /\ built' = "decoded"
    /\ input' = IF origin = "received" THEN wire ELSE input
    /\ wire' = NoWire
    /\ origin' = "none"
    /\ result' = NoResult

Next ==
    \/ Default
    \/ New
    \/ AssignRegistered
    \/ InsertPrivate
    \/ ToBase64
    \/ Receive
    \/ FromBase64
    \/ Adopt

Spec == Init /\ [][Next]_vars

----------------------------------------------------------------------------
(* Vocabulary of the properties *)

\* a decode of the payload in hand has returned
Decoded == result # NoResult
DecodedObject == Decoded /\ wire[1] = "obj"

\* <<key, t>> is a member of the payload in hand
Member(key, t) == \E i \in DOMAIN Members(wire) : Members(wire)[i] = <<key, t>>
\* it is the only member under its key
OnlyMember(key, t) ==
    Member(key, t) /\ Cardinality(IndicesOf(Members(wire), key)) = 1

\* the object without its members under `key`
RemoveKey(t, key) == WObj(SelectSeq(t[2], LAMBDA e : e[1] # key))

IsStringArray(t) == t[1] = "arr" /\ \A i \in DOMAIN t[2] : IsStringToken(t[2][i])
StringsOf(t) == [i \in DOMAIN t[2] |-> t[2][i][2]]

\* the JSON types the fields expect (spec, section 3)
ExpectedShape(name, t) ==
    CASE FieldOf(name) \in StringFields -> IsStringToken(t)
      [] FieldOf(name) \in NumberFields -> t[1] = "uint"
      [] OTHER -> IsStringToken(t) \/ IsStringArray(t)

TypedNames == RegisteredNames \ {"aud"}

----------------------------------------------------------------------------
(* C1 *)

\* C1 (as claimed): for any Claims value c, whatever its registered fields
\* and private mapping, decode(encode(c)) succeeds and equals c.
RoundTripAnyValue ==
    (origin = "encoded" /\ Decoded) => (IsOk(result) /\ Unwrap(result) = claims)

----------------------------------------------------------------------------
(* C2 *)

\* C2: after a successful decode no key of `private` is a registered wire
\* name; every other key of the payload, the case and whitespace variants
\* of registered names included, is a key of `private`; and a registered
\* field is asserted only if the payload has a member under exactly its
\* wire name.
KeyDisjointness ==
    (DecodedObject /\ IsOk(result)) =>
        /\ DOMAIN Unwrap(result).private \cap RegisteredNames = {}
        /\ KeysOf(Members(wire)) \ RegisteredNames = DOMAIN Unwrap(result).private
        /\ \A name \in RegisteredNames :
              Unwrap(result).registered[FieldOf(name)][1] = "Some"
                  => name \in KeysOf(Members(wire))

\* C2's case: a payload with both iss and ISS was decoded
KeyDisjointnessWitness ==
    /\ DecodedObject /\ IsOk(result)
    /\ origin = "received"
    /\ {"iss", "ISS"} \subseteq KeysOf(Members(wire))
    /\ Unwrap(result).registered.issuer[1] = "Some"
    /\ "ISS" \in DOMAIN Unwrap(result).private

----------------------------------------------------------------------------
(* C3 *)

\* C3 (as claimed): for any Claims value, the encoded object holds the
\* registered encoding and the private entries, and no key twice.
EncodeNoCollision ==
    origin = "encoded" =>
        /\ Members(wire) = RegisteredClaims_serialize(claims.registered)
                        \o SerializePrivate(claims.private)
        /\ ~HasDuplicateKey(Members(wire))

----------------------------------------------------------------------------
(* C4 *)

\* a token that is neither a string nor an array of strings
BadAudienceShape(t) == ~IsStringToken(t) /\ ~IsStringArray(t)

\* C4 (as claimed): a payload with an aud member that is null, or of any
\* other shape than string or array of strings, fails to decode.
AudienceNullRejected ==
    DecodedObject =>
        \A i \in DOMAIN Members(wire) :
            (Members(wire)[i][1] = "aud" /\ BadAudienceShape(Members(wire)[i][2]))
                => ~IsOk(result)

\* C4 (amended): an aud member of a non-null shape other than string or
\* array of strings fails the decode; a null aud is read as absence: the
\* decode returns what it returns for the payload without the aud member,
\* and on success audience is None.
AudienceNullIsAbsence ==
    DecodedObject =>
        /\ \A i \in DOMAIN Members(wire) :
              (/\ Members(wire)[i][1] = "aud"
               /\ BadAudienceShape(Members(wire)[i][2])
               /\ Members(wire)[i][2] # WNull) => ~IsOk(result)
        /\ OnlyMember("aud", WNull) =>
              /\ result = Claims_deserialize(RemoveKey(wire, "aud"))
              /\ IsOk(result) => Unwrap(result).registered.audience = None

\* C4's case: a payload with "aud": null was decoded, successfully
AudienceNullWitness ==
    /\ DecodedObject /\ IsOk(result)
    /\ origin = "received"
    /\ Member("aud", WNull)
    /\ Unwrap(result).registered.audience = None

----------------------------------------------------------------------------
(* C5 *)

\* C5 (as claimed): a member under iss, sub, jti, exp, nbf or iat whose JSON
\* type is not the field's fails the whole decode.
ShapeMismatchRejected ==
    DecodedObject =>
        \A i \in DOMAIN Members(wire) :
            (/\ Members(wire)[i][1] \in TypedNames
             /\ ~ExpectedShape(Members(wire)[i][1], Members(wire)[i][2])) => result[1] = "Err"

\* C5 (amended): such a member of a non-null JSON type that is not the
\* field's fails the whole decode: the result is an error and carries no
\* Claims value.  A null is read as absence: the decode returns what it
\* returns for the payload without that member, the field is None on
\* success, and the key is not moved into `private`.
ShapeMismatchRejectedNonNull ==
    DecodedObject =>
        /\ \A i \in DOMAIN Members(wire) :
              (/\ Members(wire)[i][1] \in TypedNames
               /\ ~ExpectedShape(Members(wire)[i][1], Members(wire)[i][2])
               /\ Members(wire)[i][2] # WNull) => result[1] = "Err"
        /\ \A name \in TypedNames :
              OnlyMember(name, WNull) =>
                  /\ result = Claims_deserialize(RemoveKey(wire, name))
                  /\ IsOk(result) =>
                        /\ Unwrap(result).registered[FieldOf(name)] = None
                        /\ name \notin DOMAIN Unwrap(result).private

\* C5's case: a payload with a string under exp, and a private claim beside
\* it, was decoded
ShapeMismatchWitness ==
    /\ DecodedObject
    /\ origin = "received"
    /\ Member("exp", WStr("audience"))
    /\ "custom_claim" \in KeysOf(Members(wire))
    /\ result[1] = "Err"

----------------------------------------------------------------------------
(* C6 *)

\* the payload's one aud member is t, and the payload decodes without it
AudienceIs(t) ==
    /\ OnlyMember("aud", t)
    /\ IsOk(Claims_deserialize(RemoveKey(wire, "aud")))

\* C6 (as claimed): an aud that is a JSON string s, for every string s,
\* decodes to the one-element sequence <<s>>; an aud that is an array of
\* strings decodes to that sequence, in order.
AudienceNormalized ==
    DecodedObject =>
        \A i \in DOMAIN Members(wire) :
            LET t == Members(wire)[i][2]
            IN  /\ (AudienceIs(t) /\ IsStringToken(t)) =>
                      /\ IsOk(result)
                      /\ Unwrap(result).registered.audience = Some(<<t[2]>>)
                /\ (AudienceIs(t) /\ IsStringArray(t)) =>
                      /\ IsOk(result)
                      /\ Unwrap(result).registered.audience = Some(StringsOf(t))

----------------------------------------------------------------------------
(* C7 *)

\* C7 (as claimed): for any Claims value, a registered field that is None
\* leaves no member under its wire name in the encoded object, and no
\* member under a registered wire name is null.
AbsentFieldOmitted ==
    origin = "encoded" =>
        /\ \A name \in RegisteredNames :
              claims.registered[FieldOf(name)] = None
                  => name \notin KeysOf(Members(wire))
        /\ \A i \in DOMAIN Members(wire) :
              Members(wire)[i][1] \in RegisteredNames => Members(wire)[i][2] # WNull

----------------------------------------------------------------------------
(* C8 *)

\* every member under a registered wire name has the shape its field expects
WellShaped(members) ==
    \A i \in DOMAIN members :
        members[i][1] \in RegisteredNames
            => ExpectedShape(members[i][1], members[i][2])

\* C8 (as claimed): a JSON object (its keys distinct) whose registered
\* members are well-shaped decodes, whatever its other members are, and
\* `private` holds exactly the other keys, each with its value.
PrivateClaimsPreserved ==
    (DecodedObject /\ ~HasDuplicateKey(Members(wire)) /\ WellShaped(Members(wire))) =>
        /\ IsOk(result)
        /\ DOMAIN Unwrap(result).private = KeysOf(Members(wire)) \ RegisteredNames
        /\ \A key \in DOMAIN Unwrap(result).private :
              Unwrap(result).private[key] = ToValue(LastOf(Members(wire), key))

----------------------------------------------------------------------------
(* C9 *)

\* C9: a payload without an aud member decodes to audience None; one with
\* "aud": [] decodes to Some of the empty sequence.  The second value
\* differs from what the same payload without its aud member decodes to,
\* and the two encode differently: "aud": [] against no aud member.
AudienceAbsenceDistinct ==
    (DecodedObject /\ IsOk(result)) =>
        /\ "aud" \notin KeysOf(Members(wire)) => Unwrap(result).registered.audience = None
        /\ Member("aud", WArr(<<>>)) =>
              LET absent == Claims_deserialize(RemoveKey(wire, "aud"))
              IN  /\ Unwrap(result).registered.audience = Some(<<>>)
                  /\ IsOk(absent)
                  /\ absent[2].registered.audience = None
                  /\ absent[2] # Unwrap(result)
                  /\ \E i \in DOMAIN Claims_serialize(Unwrap(result))[2] :
                        Claims_serialize(Unwrap(result))[2][i] = <<"aud", WArr(<<>>)>>
                  /\ "aud" \notin KeysOf(Claims_serialize(absent[2])[2])

\* C9's case: a payload with "aud": [] was decoded, successfully
AudienceAbsenceWitness ==
    /\ DecodedObject /\ IsOk(result)
    /\ origin = "received"
    /\ Member("aud", WArr(<<>>))
    /\ Unwrap(result).registered.audience = Some(<<>>)

----------------------------------------------------------------------------
(* C10 *)

\* C10: a value that a decode returned encodes to a payload that decodes
\* to the same value, which encodes to the same payload.
DecodeOutputFixedPoint ==
    (built = "decoded" /\ origin = "encoded" /\ Decoded) =>
        /\ IsOk(result)
        /\ Unwrap(result) = claims
        /\ Claims_serialize(Unwrap(result)) = wire

\* C10's case: the value came from a received payload whose aud was a
\* single string, so its encoding differs from that payload; it was
\* encoded and decoded again
DecodeOutputFixedPointWitness ==
    /\ built = "decoded" /\ origin = "encoded" /\ Decoded
    /\ input[1] = "obj"
    /\ \E i \in DOMAIN Members(input) : Members(input)[i] = <<"aud", WStr("audience")>>
    /\ \E i \in DOMAIN Members(wire) : Members(wire)[i] = <<"aud", WArr(<<WStr("audience")>>)>>
    /\ wire # input
    /\ IsOk(result)

============================================================================
